---- MODULE Spec2Model ----
(***************************************************************************)
(* The JSON lexer and recursive-descent parser of main.go as a state       *)
(* machine.  A character is a one-character string, the input a sequence   *)
(* of characters (Go indexes l.input by byte; the model's alphabet is      *)
(* ASCII).  The lexer's routines are operators on the machine record: they *)
(* run inside the parser step that calls Parser.nextToken.  The parser's   *)
(* recursion is an explicit stack of frames; a step runs the code between  *)
(* two calls or returns of parseObject / parseArray / parseValue.          *)
(***************************************************************************)
EXTENDS Integers, Sequences, FiniteSets, TLC

VARIABLES input, pos, current, token, stack, ret, pc, err

vars == <<input, pos, current, token, stack, ret, pc, err>>

\* ------------------------------------------------------------- token types
TokenString == "TokenString"
TokenNumber == "TokenNumber"
TokenBoolean == "TokenBoolean"
TokenNull == "TokenNull"
TokenLeftBrace == "TokenLeftBrace"
TokenRightBrace == "TokenRightBrace"
TokenLeftBracket == "TokenLeftBracket"
TokenRightBracket == "TokenRightBracket"
TokenColon == "TokenColon"
TokenComma == "TokenComma"
TokenEOF == "TokenEOF"

Token(type, value) == [Type |-> type, Value |-> value]

\* The zero value of Token: TokenType 0 is TokenString, Value is "".
ZeroToken == Token(TokenString, <<>>)

\* ------------------------------------------------------------- characters
\* rune 0: the zero value of Lexer.current, and what advance stores at the end.
NUL == "NUL"

DigitSeq == <<"0", "1", "2", "3", "4", "5", "6", "7", "8", "9">>

\* unicode.IsDigit on a byte.
IsDigit(c) == \E i \in 1..Len(DigitSeq) : DigitSeq[i] = c

\* unicode.IsLetter on a byte (the ASCII letters; the Latin-1 letters of the
\* bytes 0xAA..0xFF are outside the alphabet of the model).
IsLetter(c) ==
    c \in {"a", "b", "c", "d", "e", "f", "g", "h", "i", "j", "k", "l", "m",
           "n", "o", "p", "q", "r", "s", "t", "u", "v", "w", "x", "y", "z",
           "A", "B", "C", "D", "E", "F", "G", "H", "I", "J", "K", "L", "M",
           "N", "O", "P", "Q", "R", "S", "T", "U", "V", "W", "X", "Y", "Z"}

\* unicode.IsSpace on a byte: \t \n \v \f \r, space, 0x85, 0xA0 (\v, 0x85 and
\* 0xA0 have no TLA+ string and are outside the alphabet of the model).
IsSpace(c) == c \in {" ", "\t", "\n", "\f", "\r"}

\* ------------------------------------------------------------------ values
\* interface{} as a tagged record; every variant carries every field, so that
\* two values always compare.  A float64 is m * 10^e, m no multiple of 10
\* (0 is 0 * 10^0).
Val(t, s, m, e, b, kv, xs) ==
    [t |-> t, s |-> s, m |-> m, e |-> e, b |-> b, kv |-> kv, xs |-> xs]
NilV == Val("nil", <<>>, 0, 0, FALSE, <<>>, <<>>)
StrV(s) == Val("string", s, 0, 0, FALSE, <<>>, <<>>)
NumV(m, e) == Val("float64", <<>>, m, e, FALSE, <<>>, <<>>)
BoolV(b) == Val("bool", <<>>, 0, 0, b, <<>>, <<>>)
MapV(kv) == Val("map", <<>>, 0, 0, FALSE, kv, <<>>)
SliceV(xs) == Val("slice", <<>>, 0, 0, FALSE, <<>>, xs)

\* A store that keeps the value a key already has.
MapPutIfAbsent(kv, key, value) ==
    [k \in (DOMAIN kv) \cup {key} |-> IF k \in DOMAIN kv THEN kv[k] ELSE value]

\* obj[key] = value on a Go map.
MapPut(kv, key, value) ==
    [k \in (DOMAIN kv) \cup {key} |-> IF k = key THEN value ELSE kv[k]]

\* ------------------------------------------------------------------- lexer
\* Lexer.advance.  Go's input[pos] is input[pos + 1] here.
Advance(m) ==
    IF m.pos < Len(m.input)
    THEN [m EXCEPT !.current = m.input[m.pos + 1], !.pos = m.pos + 1]
    ELSE [m EXCEPT !.current = NUL]

RECURSIVE SkipWhitespace(_)
\* Lexer.skipWhitespace.
SkipWhitespace(m) ==
    IF IsSpace(m.current) THEN SkipWhitespace(Advance(m)) ELSE m

\* What a lexer routine hands back: the machine with the cursor moved, the
\* token, and whether the routine panicked instead of returning (and with what).
Lexed(m, tok) == [m |-> m, tok |-> tok, panicked |-> FALSE, msg |-> ""]
LexPanic(m, msg) == [m |-> m, tok |-> ZeroToken, panicked |-> TRUE, msg |-> msg]

RECURSIVE StringLoop(_, _)
\* The loop of readString: <<machine, text built so far>>.
StringLoop(m, sb) ==
    IF m.current # "\"" /\ m.current # NUL
    THEN StringLoop(Advance(m), Append(sb, m.current))
    ELSE <<m, sb>>

\* Lexer.readString.
ReadString(m) ==
    LET r == StringLoop(Advance(m), <<>>)
    IN  Lexed(Advance(r[1]), Token(TokenString, r[2]))

RECURSIVE NumberLoop(_)
\* The loop of readNumber.
NumberLoop(m) ==
    IF IsDigit(m.current) \/ m.current = "." \/ m.current = "-"
    THEN NumberLoop(Advance(m))
    ELSE m

RECURSIVE KeywordLoop(_)
\* The loop of readKeyword.
KeywordLoop(m) ==
    IF IsLetter(m.current) THEN KeywordLoop(Advance(m)) ELSE m

\* The slice input[start : pos-1] of readNumber and readKeyword, as its Go bounds
\* start and end (0-based, end exclusive): m the machine where the routine is
\* entered, n the machine after its loop.
TokenSpan(m, n) == [start |-> m.pos - 1, end |-> n.pos - 1, m |-> n]

\* Go's s[a:b]: a run-time panic unless 0 <= a <= b <= len(s).
SliceOK(s, a, b) == 0 <= a /\ a <= b /\ b <= Len(s)
Slice(s, a, b) == SubSeq(s, a + 1, b)

\* Lexer.readNumber.
ReadNumber(m) ==
    LET sp == TokenSpan(m, NumberLoop(m))
    IN  IF ~SliceOK(m.input, sp.start, sp.end)
        THEN LexPanic(sp.m, "slice bounds out of range")
        ELSE Lexed(sp.m, Token(TokenNumber, Slice(m.input, sp.start, sp.end)))

\* Lexer.readKeyword.
ReadKeyword(m) ==
    LET sp == TokenSpan(m, KeywordLoop(m))
        value == Slice(m.input, sp.start, sp.end)
    IN  IF ~SliceOK(m.input, sp.start, sp.end)
        THEN LexPanic(sp.m, "slice bounds out of range")
        ELSE IF value \in {<<"t", "r", "u", "e">>, <<"f", "a", "l", "s", "e">>}
        THEN Lexed(sp.m, Token(TokenBoolean, value))
        ELSE IF value = <<"n", "u", "l", "l">>
        THEN Lexed(sp.m, Token(TokenNull, value))
        ELSE LexPanic(sp.m, "Unexpected keyword")

\* The single-character tokens of Lexer.nextToken.
Punctuation(c) ==
    CASE c = "{" -> TokenLeftBrace
      [] c = "}" -> TokenRightBrace
      [] c = "[" -> TokenLeftBracket
      [] c = "]" -> TokenRightBracket
      [] c = ":" -> TokenColon
      [] c = "," -> TokenComma
      [] OTHER -> TokenEOF

\* Lexer.nextToken.
LexerNextToken(m0) ==
    LET m == SkipWhitespace(m0)
        c == m.current
    IN  IF Punctuation(c) # TokenEOF THEN Lexed(Advance(m), Token(Punctuation(c), <<c>>))
        ELSE IF c = "\"" THEN ReadString(m)
        ELSE IF IsDigit(c) \/ c = "-" THEN ReadNumber(m)
        ELSE IF IsLetter(c) THEN ReadKeyword(m)
        ELSE Lexed(m, Token(TokenEOF, <<>>))

\* ------------------------------------------------------------------ parser
\* panic(msg): the run ends, nothing is returned.
Panic(m, msg) == [m EXCEPT !.pc = "panic", !.err = msg]

\* Parser.nextToken; a panic of the lexer unwinds through it.
NextToken(m) ==
    IF m.pc = "panic" THEN m
    ELSE LET r == LexerNextToken(m)
         IN  IF r.panicked THEN Panic(r.m, r.msg) ELSE [r.m EXCEPT !.token = r.tok]

\* A call of parseObject or parseArray in progress: its local obj / arr, and
\* in parseObject the key whose value is being parsed.
Frame(kind, kv, xs, key) == [kind |-> kind, kv |-> kv, xs |-> xs, key |-> key]
Top(m) == m.stack[Len(m.stack)]
SetTop(m, f) == [m EXCEPT !.stack[Len(m.stack)] = f]

\* Where a call of parseValue made in the frame on top of the stack comes back to.
ResumePoint(st) ==
    IF st = <<>> THEN "done"
    ELSE IF st[Len(st)].kind = "object" THEN "objResume" ELSE "arrResume"

\* return v from parseValue into the frame on top of the stack.
ReturnValue(m, v) ==
    IF m.pc = "panic" THEN m
    ELSE [m EXCEPT !.ret = v, !.pc = ResumePoint(m.stack)]

\* p.nextToken(); return obj (or arr): the frame is popped, and the value goes
\* to the caller of the parseValue (or parseJSON) that made the call.
ReturnContainer(m, v) ==
    LET n == NextToken(m)
    IN  IF n.pc = "panic" THEN n
        ELSE ReturnValue([n EXCEPT !.stack = SubSeq(n.stack, 1, Len(n.stack) - 1)], v)

\* strconv.ParseFloat(s, 64) with its error dropped, on the texts readNumber can
\* return (digits, '.', '-'): an optional sign, digits with at most one '.', at
\* least one digit, and nothing else; anything else is (0, err).  The texts are
\* short: every value is exact, none overflows.  -0 is 0 (they are == in Go).
DigitVal(c) == (CHOOSE i \in 1..Len(DigitSeq) : DigitSeq[i] = c) - 1
RECURSIVE DigitsVal(_)
DigitsVal(s) ==
    IF s = <<>> THEN 0 ELSE 10 * DigitsVal(SubSeq(s, 1, Len(s) - 1)) + DigitVal(s[Len(s)])
RECURSIVE Normalize(_, _)
Normalize(mant, exp) ==
    IF mant = 0 THEN NumV(0, 0)
    ELSE IF mant % 10 = 0 THEN Normalize(mant \div 10, exp + 1)
    ELSE NumV(mant, exp)
ParseFloat(s) ==
    LET signed == s # <<>> /\ s[1] \in {"-", "+"}
        body == IF signed THEN Tail(s) ELSE s
        dots == {i \in 1..Len(body) : body[i] = "."}
        dot == IF dots = {} THEN Len(body) + 1 ELSE CHOOSE i \in dots : TRUE
        digits == SubSeq(body, 1, dot - 1) \o SubSeq(body, dot + 1, Len(body))
        wellFormed == /\ Cardinality(dots) <= 1
                      /\ digits # <<>>
                      /\ \A i \in 1..Len(digits) : IsDigit(digits[i])
        mant == DigitsVal(digits)
    IN  IF ~wellFormed THEN NumV(0, 0)
        ELSE Normalize(IF signed /\ s[1] = "-" THEN -mant ELSE mant,
                       IF dots = {} THEN 0 ELSE dot - Len(body))

\* parseJSON as it would be if it took any value at the top level.
ParseJSONAnyValue(m) == [m EXCEPT !.pc = "parseValue"]

\* Parser.parseJSON.
ParseJSONOp(m) ==
    IF m.token.Type = TokenLeftBrace THEN [m EXCEPT !.pc = "parseObject"]
    ELSE IF m.token.Type = TokenLeftBracket THEN [m EXCEPT !.pc = "parseArray"]
    ELSE Panic(m, "Invalid JSON start")

\* The for loop of parseObject from its condition to the call of parseValue, or,
\* when the condition fails, the p.nextToken(); return obj after the loop.
ObjectLoop(m) ==
    IF m.pc = "panic" THEN m
    ELSE IF m.token.Type = TokenRightBrace THEN ReturnContainer(m, MapV(Top(m).kv))
    ELSE IF m.token.Type # TokenString THEN Panic(m, "Expected string key in object")
    ELSE LET k == NextToken(SetTop(m, [Top(m) EXCEPT !.key = m.token.Value]))
         IN  IF k.pc = "panic" THEN k
             ELSE IF k.token.Type # TokenColon THEN Panic(k, "Expected ':' after key")
             ELSE LET v == NextToken(k)
                  IN  IF v.pc = "panic" THEN v ELSE [v EXCEPT !.pc = "parseValue"]

\* Parser.parseObject up to its first call of parseValue (or its return).
ParseObjectOp(m) ==
    ObjectLoop(NextToken([m EXCEPT !.stack = Append(m.stack, Frame("object", <<>>, <<>>, <<>>))]))

\* Parser.parseObject from the return of parseValue: the store, the separator,
\* and the loop again.
ObjResumeOp(m) ==
    LET f == Top(m)
        s == SetTop(m, [f EXCEPT !.kv = MapPut(f.kv, f.key, m.ret)])
    IN  IF s.token.Type = TokenComma THEN ObjectLoop(NextToken(s))
        ELSE IF s.token.Type # TokenRightBrace THEN Panic(s, "Expected ',' or '}' in object")
        ELSE ObjectLoop(s)

\* The for loop of parseArray from its condition to the call of parseValue, or,
\* when the condition fails, the p.nextToken(); return arr after the loop.
ArrayLoop(m) ==
    IF m.pc = "panic" THEN m
    ELSE IF m.token.Type = TokenRightBracket THEN ReturnContainer(m, SliceV(Top(m).xs))
    ELSE [m EXCEPT !.pc = "parseValue"]

\* Parser.parseArray up to its first call of parseValue (or its return).
ParseArrayOp(m) ==
    ArrayLoop(NextToken([m EXCEPT !.stack = Append(m.stack, Frame("array", <<>>, <<>>, <<>>))]))

\* Parser.parseArray from the return of parseValue: the append, the separator,
\* and the loop again.
ArrResumeOp(m) ==
    LET f == Top(m)
        s == SetTop(m, [f EXCEPT !.xs = Append(f.xs, m.ret)])
    IN  IF s.token.Type = TokenComma THEN ArrayLoop(NextToken(s))
        ELSE IF s.token.Type # TokenRightBracket THEN Panic(s, "Expected ',' or ']' in array")
        ELSE ArrayLoop(s)

\* The literal tokens, and the value parseValue makes of each.
Literals == {TokenString, TokenNumber, TokenBoolean, TokenNull}
LiteralValue(tok) ==
    CASE tok.Type = TokenString -> StrV(tok.Value)
      [] tok.Type = TokenNumber -> ParseFloat(tok.Value)
      [] tok.Type = TokenBoolean -> BoolV(tok.Value = <<"t", "r", "u", "e">>)
      [] OTHER -> NilV

\* parseValue as it would be if it skipped a token it does not expect and tried
\* again, instead of panicking.
ParseValueSkipUnexpected(m) ==
    IF m.token.Type \in Literals THEN ReturnValue(NextToken(m), LiteralValue(m.token))
    ELSE IF m.token.Type = TokenLeftBrace THEN [m EXCEPT !.pc = "parseObject"]
    ELSE IF m.token.Type = TokenLeftBracket THEN [m EXCEPT !.pc = "parseArray"]
    ELSE NextToken(m)

\* Parser.parseValue: a literal is returned to the caller (val := ...;
\* p.nextToken(); return val), an object or an array is a call of parseObject
\* or parseArray.
ParseValueOp(m) ==
    IF m.token.Type \in Literals THEN ReturnValue(NextToken(m), LiteralValue(m.token))
    ELSE IF m.token.Type = TokenLeftBrace THEN [m EXCEPT !.pc = "parseObject"]
    ELSE IF m.token.Type = TokenLeftBracket THEN [m EXCEPT !.pc = "parseArray"]
    ELSE Panic(m, "Unexpected token")

\* NewLexer: the struct literal is the initial state, then lexer.advance().
NewLexerOp(m) == [Advance(m) EXCEPT !.pc = "NewParser"]

\* NewParser: p.nextToken().
NewParserOp(m) ==
    LET n == NextToken(m) IN IF n.pc = "panic" THEN n ELSE [n EXCEPT !.pc = "parseJSON"]

\* ---------------------------------------------------------- state machine
\* main: &Lexer{input: input, pos: 0}, every other field at its zero value.
Start(text) ==
    [input |-> text, pos |-> 0, current |-> NUL, token |-> ZeroToken,
     stack |-> <<>>, ret |-> NilV, pc |-> "NewLexer", err |-> ""]

Machine ==
    [input |-> input, pos |-> pos, current |-> current, token |-> token,
     stack |-> stack, ret |-> ret, pc |-> pc, err |-> err]

Becomes(n) ==
    /\ input' = n.input
    /\ pos' = n.pos
    /\ current' = n.current
    /\ token' = n.token
    /\ stack' = n.stack
    /\ ret' = n.ret
    /\ pc' = n.pc
    /\ err' = n.err

Terminal == {"done", "panic"}

\* One step of the run of main, whatever the position.
Step(m) ==
    CASE m.pc = "NewLexer" -> NewLexerOp(m)
      [] m.pc = "NewParser" -> NewParserOp(m)
      [] m.pc = "parseJSON" -> ParseJSONOp(m)
      [] m.pc = "parseObject" -> ParseObjectOp(m)
      [] m.pc = "parseArray" -> ParseArrayOp(m)
      [] m.pc = "parseValue" -> ParseValueOp(m)
      [] m.pc = "objResume" -> ObjResumeOp(m)
      [] m.pc = "arrResume" -> ArrResumeOp(m)
      [] OTHER -> m

RECURSIVE Run(_)
\* The run of main to its end.
Run(m) == IF m.pc \in Terminal THEN m ELSE Run(Step(m))

\* ------------------------------------------------------------------ inputs
MaxPieces == 4

Pieces ==
    { <<"[">>, <<"]">>, <<"{">>, <<"}">>, <<",">>,
      <<"\"", "a", "\"", ":", "1", ",">>,
      <<"\"", "a", "\"", ":", "2">>,
      <<"1">>,
      <<"t", "r", "u", "e">>,
      <<"\"", "b", "\"">>,
      <<" ">>,
      <<"@">> }

RECURSIVE Flatten(_)
Flatten(ps) == IF ps = <<>> THEN <<>> ELSE Head(ps) \o Flatten(Tail(ps))

Texts(P, n) == {Flatten(ps) : ps \in UNION {[1..k -> P] : k \in 0..n}}

DocInputs == Texts(Pieces, MaxPieces)

\* Literals in pieces: strings with and without their closing quote, with a
\* legal and an illegal escape; numbers digit by digit, with signs, points and
\* an exponent.
MaxLexPieces == 3

LexPieces ==
    { <<"[">>, <<"]">>, <<"{">>,
      <<"\"", "a", "\"", ":">>,
      <<"\"">>,
      <<"\"", "\\", "n", "\"">>,
      <<"\"", "\\", "q", "\"">>,
      <<"0">>, <<"1">>, <<"-">>, <<".">>,
      <<"e", "1">> }

LexInputs == Texts(LexPieces, MaxLexPieces)

\* main, before NewLexer's advance: the machine Start makes of a text.
InitWith(texts) ==
    /\ input \in texts
    /\ pos = 0
    /\ current = NUL
    /\ token = ZeroToken
    /\ stack = <<>>
    /\ ret = NilV
    /\ pc = "NewLexer"
    /\ err = ""

Inputs == DocInputs \cup LexInputs

Init == InitWith(Inputs)

NewLexer == pc = "NewLexer" /\ Becomes(NewLexerOp(Machine))
NewParser == pc = "NewParser" /\ Becomes(NewParserOp(Machine))
ParseJSON == pc = "parseJSON" /\ Becomes(ParseJSONOp(Machine))
ParseObject == pc = "parseObject" /\ Becomes(ParseObjectOp(Machine))
ParseArray == pc = "parseArray" /\ Becomes(ParseArrayOp(Machine))
ParseValue == pc = "parseValue" /\ Becomes(ParseValueOp(Machine))
ObjResume == pc = "objResume" /\ Becomes(ObjResumeOp(Machine))
ArrResume == pc = "arrResume" /\ Becomes(ArrResumeOp(Machine))

Next ==
    \/ NewLexer
    \/ NewParser
    \/ ParseJSON
    \/ ParseObject
    \/ ParseArray
    \/ ParseValue
    \/ ObjResume
    \/ ArrResume

Spec == Init /\ [][Next]_vars

\* Next has one successor, Step(Machine): a step that changes the state can be
\* taken exactly when the run has not ended and Step moves it.
CanStep == pc \notin Terminal /\ Step(Machine) # Machine

\* main is one goroutine that nothing preempts: a step that can be taken is
\* taken.  This is WF_vars(Next) with ENABLED <<Next>>_vars written as CanStep.
FairSpec == Spec /\ ([]<>(~CanStep) \/ []<><<Next>>_vars)

\* ------------------------------------------------------------------ claims
\* The token the lexer would return next from machine m, and whether it would.
Lookahead(m, type) ==
    LET r == LexerNextToken(m) IN ~r.panicked /\ r.tok.Type = type

\* The positions from which the next thing the code does is p.nextToken().
EntersNextToken ==
    \/ pc \in {"NewParser", "parseObject", "parseArray"}
    \/ pc = "parseValue" /\ token.Type \in Literals
    \/ pc \in {"objResume", "arrResume"} /\ token.Type = TokenComma

\* The longest run of characters of the set chars that starts at text[i]: the
\* index just after it, and its text.
RunEnd(text, i, chars) ==
    CHOOSE j \in i..(Len(text) + 1) :
        /\ \A k \in i..(j - 1) : text[k] \in chars
        /\ j = Len(text) + 1 \/ text[j] \notin chars
MaxRun(text, i, chars) == SubSeq(text, i, RunEnd(text, i, chars) - 1)

\* The characters of a text that satisfy a test of the lexer.
NumberChar(c) == IsDigit(c) \/ c = "." \/ c = "-"
NumberChars(text) == {text[k] : k \in {i \in 1..Len(text) : NumberChar(text[i])}}
Letters(text) == {text[k] : k \in {i \in 1..Len(text) : IsLetter(text[i])}}

\* ---------------------------------------------------------------------- C2
\* The parser is back in parseArray (parseObject) after a value, the lookahead
\* is a comma, and the token after the comma is the closing ']' ('}').
TrailingComma ==
    \/ pc = "arrResume" /\ token.Type = TokenComma /\ Lookahead(Machine, TokenRightBracket)
    \/ pc = "objResume" /\ token.Type = TokenComma /\ Lookahead(Machine, TokenRightBrace)

\* C2: a comma immediately followed by the closing '}' or ']' is rejected: the
\* step of parseObject / parseArray that meets it ends in a panic, never in a
\* returned object or array.
C2_TrailingCommaRejected == [][TrailingComma => pc' = "panic"]_vars

\* ---------------------------------------------------------------------- C3
\* The lexer has nothing left: the cursor is past the last character.
AtEndOfInput == current = NUL /\ pos = Len(input)

\* C3: parseJSON returns a value only when, after the top-level closer, the
\* lexer is at the end of the input (only whitespace followed the closer).
C3_NoTrailingContent == pc = "done" => (token.Type = TokenEOF /\ AtEndOfInput)

\* ---------------------------------------------------------------------- C4
\* The first token of the text is '{' or '['.
FirstTokenOpens(text) ==
    LET m == NewLexerOp(Start(text))
    IN  Lookahead(m, TokenLeftBrace) \/ Lookahead(m, TokenLeftBracket)

\* C4: an input whose first token is not '{' or '[' never makes parseJSON
\* return a value: the run ends in a panic.
C4_TopLevelMustOpen ==
    (pc \in Terminal /\ ~FirstTokenOpens(input)) => (pc = "panic" /\ stack = <<>>)

\* A bare number at the top level was refused by parseJSON.
C4_Witness ==
    pc = "panic" /\ err = "Invalid JSON start" /\ token.Type = TokenNumber

\* --------------------------------------------------------------------- C10
\* C10: wherever readNumber or readKeyword is entered, the bounds of its slice
\* satisfy 0 <= start <= pos-1 <= len(input), and the text of the token it
\* returns is the whole maximal run of accepted characters that starts at the
\* token's first character.
C10_TokenTextIsMaximalRun ==
    EntersNextToken =>
        LET m == SkipWhitespace(Machine)
            num == TokenSpan(m, NumberLoop(m))
            key == TokenSpan(m, KeywordLoop(m))
        IN  /\ (IsDigit(m.current) \/ m.current = "-") =>
                  /\ SliceOK(input, num.start, num.end)
                  /\ ~ReadNumber(m).panicked
                  /\ ReadNumber(m).tok.Value = MaxRun(input, m.pos, NumberChars(input))
            /\ IsLetter(m.current) =>
                  /\ SliceOK(input, key.start, key.end)
                  /\ ~ReadKeyword(m).panicked =>
                        ReadKeyword(m).tok.Value = MaxRun(input, m.pos, Letters(input))

\* ------------------------------------------------- the grammar, as reference
\* The number grammar -?(0|[1-9][0-9]*)(.[0-9]+)?([eE][+-]?[0-9]+)?.
AllDigits(s) == \A i \in 1..Len(s) : IsDigit(s[i])
IsJSONInt(s) == s # <<>> /\ AllDigits(s) /\ (Len(s) = 1 \/ s[1] # "0")
IsJSONFrac(s) == s = <<>> \/ (Len(s) >= 2 /\ s[1] = "." /\ AllDigits(Tail(s)))
ExpDigits(s) == IF Len(s) >= 2 /\ s[2] \in {"+", "-"} THEN SubSeq(s, 3, Len(s)) ELSE Tail(s)
IsJSONExp(s) ==
    s = <<>> \/ (s[1] \in {"e", "E"} /\ ExpDigits(s) # <<>> /\ AllDigits(ExpDigits(s)))
IsJSONNumber(s) ==
    LET a == IF s # <<>> /\ s[1] = "-" THEN 2 ELSE 1
    IN  \E b \in a..(Len(s) + 1) : \E c \in b..(Len(s) + 1) :
            /\ IsJSONInt(SubSeq(s, a, b - 1))
            /\ IsJSONFrac(SubSeq(s, b, c - 1))
            /\ IsJSONExp(SubSeq(s, c, Len(s)))

\* The characters a backslash may be followed by in a string literal.
EscapeChars == {"\"", "\\", "/", "b", "f", "n", "r", "t", "u"}

RECURSIVE LiteralEnd(_, _, _)
\* The index of the closing quote of the string literal whose text starts at
\* text[j]; 0 when the literal has no closing quote, or a backslash followed
\* by a character that is not in escapes.
LiteralEnd(text, j, escapes) ==
    IF j > Len(text) THEN 0
    ELSE IF text[j] = "\"" THEN j
    ELSE IF text[j] # "\\" THEN LiteralEnd(text, j + 1, escapes)
    ELSE IF j + 1 <= Len(text) /\ text[j + 1] \in escapes
    THEN LiteralEnd(text, j + 2, escapes)
    ELSE 0

\* ---------------------------------------------------------------------- C6
\* C6: wherever the lexer is asked for a token and the next thing in the input
\* is a string literal that has no closing quote before the end of the input,
\* or a backslash followed by a character other than " \ / b f n r t u, the
\* lexer raises an error: readString returns no String token for it.
C6_BadStringRejected ==
    EntersNextToken =>
        LET m == SkipWhitespace(Machine)
        IN  (m.current = "\"" /\ LiteralEnd(input, m.pos + 1, EscapeChars) = 0) => ReadString(m).panicked

\* ---------------------------------------------------------------------- C7
\* The text of the number literal the lexer has just scanned (the lookahead is
\* the Number token made of it): the run of digits, '.' and '-' that ends just
\* before the cursor.
NumberLiteral ==
    LET e == IF current = NUL THEN Len(input) ELSE pos - 1
        s == CHOOSE j \in 1..e :
                /\ \A k \in j..e : NumberChar(input[k])
                /\ j = 1 \/ ~NumberChar(input[j - 1])
    IN  SubSeq(input, s, e)

\* C7: a number literal that violates the number grammar is an error: the step
\* of parseValue on its token panics, it does not return a Number value.
C7_MalformedNumberRejected ==
    [][(pc = "parseValue" /\ token.Type = TokenNumber /\ ~IsJSONNumber(NumberLiteral))
            => pc' = "panic"]_vars

\* ---------------------------------------------- the grammar over tokens
\* A token with the value it stands for and the offset in the text where it
\* starts.  LexError stands for the point where lexing failed.
LexError == "LexError"
RefTok(type, value, v, at) == [Type |-> type, Value |-> value, v |-> v, at |-> at]

\* For each key, the value of the last pair that has it.
LastWins(pairs) ==
    [k \in {pairs[i].key : i \in 1..Len(pairs)} |->
        pairs[CHOOSE i \in 1..Len(pairs) :
                /\ pairs[i].key = k
                /\ \A j \in (i + 1)..Len(pairs) : pairs[j].key # k].val]

Parsed(v, next) == [ok |-> TRUE, v |-> v, next |-> next]
NotParsed == [ok |-> FALSE, v |-> NilV, next |-> 0]
TypeAt(toks, i) == IF i <= Len(toks) THEN toks[i].Type ELSE LexError

RECURSIVE RefValue(_, _), RefPairs(_, _, _), RefItems(_, _, _)
\* Value -> STRING | NUMBER | BOOLEAN | NULL | Object | Array, at toks[i].
RefValue(toks, i) ==
    IF TypeAt(toks, i) \in Literals THEN Parsed(toks[i].v, i + 1)
    ELSE IF TypeAt(toks, i) = TokenLeftBrace
    THEN IF TypeAt(toks, i + 1) = TokenRightBrace THEN Parsed(MapV(<<>>), i + 2)
         ELSE RefPairs(toks, i + 1, <<>>)
    ELSE IF TypeAt(toks, i) = TokenLeftBracket
    THEN IF TypeAt(toks, i + 1) = TokenRightBracket THEN Parsed(SliceV(<<>>), i + 2)
         ELSE RefItems(toks, i + 1, <<>>)
    ELSE NotParsed
\* Pair ("," Pair)* "}", at toks[i], after the pairs already read.
RefPairs(toks, i, pairs) ==
    IF TypeAt(toks, i) # TokenString \/ TypeAt(toks, i + 1) # TokenColon THEN NotParsed
    ELSE LET r == RefValue(toks, i + 2)
             ps == Append(pairs, [key |-> toks[i].Value, val |-> r.v])
         IN  IF ~r.ok THEN NotParsed
             ELSE IF TypeAt(toks, r.next) = TokenComma THEN RefPairs(toks, r.next + 1, ps)
             ELSE IF TypeAt(toks, r.next) = TokenRightBrace
             THEN Parsed(MapV(LastWins(ps)), r.next + 1)
             ELSE NotParsed
\* Value ("," Value)* "]", at toks[i], after the values already read.
RefItems(toks, i, items) ==
    LET r == RefValue(toks, i)
    IN  IF ~r.ok THEN NotParsed
        ELSE IF TypeAt(toks, r.next) = TokenComma
        THEN RefItems(toks, r.next + 1, Append(items, r.v))
        ELSE IF TypeAt(toks, r.next) = TokenRightBracket
        THEN Parsed(SliceV(Append(items, r.v)), r.next + 1)
        ELSE NotParsed

\* JSON -> Object | Array, and nothing after it but the end of the input.
RefDocument(toks) ==
    LET r == RefValue(toks, 1)
    IN  IF /\ TypeAt(toks, 1) \in {TokenLeftBrace, TokenLeftBracket}
           /\ r.ok
           /\ r.next = Len(toks)
           /\ toks[r.next].Type = TokenEOF
        THEN r ELSE NotParsed

\* The offset in the text at which the token the lexer returns next starts.
TokenStart(m) ==
    LET s == SkipWhitespace(m) IN IF s.current = NUL THEN s.pos ELSE s.pos - 1

RECURSIVE CodeLex(_, _)
\* The tokens the lexer of the program returns from machine m on, up to its
\* EOF token or its panic, each with the value parseValue makes of it.
CodeLex(m, acc) ==
    LET r == LexerNextToken(m)
    IN  IF r.panicked THEN Append(acc, RefTok(LexError, <<>>, NilV, TokenStart(m)))
        ELSE IF r.tok.Type = TokenEOF
        THEN Append(acc, RefTok(TokenEOF, <<>>, NilV, TokenStart(m)))
        ELSE CodeLex(r.m, Append(acc, RefTok(r.tok.Type, r.tok.Value,
                                             LiteralValue(r.tok), TokenStart(m))))
CodeTokens(text) == CodeLex(NewLexerOp(Start(text)), <<>>)

\* ---------------------------------------------------------------------- C5
\* C5: when the tokens of the input form a document, the tree parseJSON returns
\* is the tree of the grammar in which every object maps each of its keys to
\* the value of the key's last occurrence in the text, and to nothing else.
C5_LastOccurrenceWins ==
    (pc = "done" /\ RefDocument(CodeTokens(input)).ok)
        => ret = RefDocument(CodeTokens(input)).v

\* An object text with the key "a" twice, 1 first and 2 last, was parsed.
C5_Witness ==
    /\ pc = "done"
    /\ RefDocument(CodeTokens(input)).ok
    /\ Cardinality({i \in 1..Len(CodeTokens(input)) :
            CodeTokens(input)[i].Type = TokenString /\ CodeTokens(input)[i].Value = <<"a">>}) = 2
    /\ ret = MapV([k \in {<<"a">>} |-> NumV(2, 0)])

\* ---------------------------------------------------------------------- C9
\* C9: every run of NewLexer, NewParser, parseJSON on a finite input comes to
\* its end, with a returned value or with a panic.
C9_Terminates == <>(pc \in Terminal)

\* Inside an open object or array the lexer returned its EOF token at a
\* character it does not know, without moving the cursor, and the run ended.
C9_Witness ==
    /\ pc = "panic"
    /\ stack # <<>>
    /\ token.Type = TokenEOF
    /\ ~AtEndOfInput
    /\ LexerNextToken(Machine).m = Machine

\* ------------------------------------------- the lexical grammar, as reference
\* Insignificant whitespace: space, tab, newline, carriage return.
JSONSpace(c) == c \in {" ", "\t", "\n", "\r"}
JSONNumberChar(c) == IsDigit(c) \/ c \in {".", "-", "+", "e", "E"}
JSONSpaces(text) == {text[k] : k \in {i \in 1..Len(text) : JSONSpace(text[i])}}
JSONNumberChars(text) == {text[k] : k \in {i \in 1..Len(text) : JSONNumberChar(text[i])}}

\* The character an escape stands for ("BS" stands for the backspace, which
\* has no TLA+ string).  \uXXXX is not decoded: a literal with it is outside
\* the documents the reference covers.
Unescape(c) ==
    CASE c = "b" -> "BS"
      [] c = "f" -> "\f"
      [] c = "n" -> "\n"
      [] c = "r" -> "\r"
      [] c = "t" -> "\t"
      [] OTHER -> c
RECURSIVE Decode(_, _, _)
\* The decoded text of the string literal text[j .. e-1], e its closing quote.
Decode(text, j, e) ==
    IF j >= e THEN <<>>
    ELSE IF text[j] = "\\" THEN <<Unescape(text[j + 1])>> \o Decode(text, j + 2, e)
    ELSE <<text[j]>> \o Decode(text, j + 1, e)

\* The value of a text of the number grammar.
RefNumberValue(s) ==
    LET neg == s[1] = "-"
        body == IF neg THEN Tail(s) ELSE s
        es == {i \in 1..Len(body) : body[i] \in {"e", "E"}}
        me == IF es = {} THEN Len(body) + 1 ELSE CHOOSE i \in es : TRUE
        mant == SubSeq(body, 1, me - 1)
        dots == {i \in 1..Len(mant) : mant[i] = "."}
        d == IF dots = {} THEN Len(mant) + 1 ELSE CHOOSE i \in dots : TRUE
        digits == SubSeq(mant, 1, d - 1) \o SubSeq(mant, d + 1, Len(mant))
        fracLen == IF dots = {} THEN 0 ELSE Len(mant) - d
        expText == SubSeq(body, me, Len(body))
        exp == IF es = {} THEN 0
               ELSE IF expText[2] = "-" THEN -DigitsVal(ExpDigits(expText))
               ELSE DigitsVal(ExpDigits(expText))
        value == IF neg THEN -DigitsVal(digits) ELSE DigitsVal(digits)
    IN  Normalize(value, exp - fracLen)

RECURSIVE RefLexFrom(_, _, _)
\* The tokens of the lexical grammar from text[i] on, after the tokens acc: up
\* to EndOfInput, or to LexError where the text is no token.
RefLexFrom(text, i, acc) ==
    LET j == RunEnd(text, i, JSONSpaces(text))
        c == text[j]
        close == LiteralEnd(text, j + 1, EscapeChars \ {"u"})
        number == MaxRun(text, j, JSONNumberChars(text))
        word == MaxRun(text, j, Letters(text))
        failed == Append(acc, RefTok(LexError, <<>>, NilV, j - 1))
    IN  IF j > Len(text) THEN Append(acc, RefTok(TokenEOF, <<>>, NilV, j - 1))
        ELSE IF Punctuation(c) # TokenEOF
        THEN RefLexFrom(text, j + 1, Append(acc, RefTok(Punctuation(c), <<c>>, NilV, j - 1)))
        ELSE IF c = "\""
        THEN IF close = 0 THEN failed
             ELSE RefLexFrom(text, close + 1,
                    Append(acc, RefTok(TokenString, Decode(text, j + 1, close),
                                       StrV(Decode(text, j + 1, close)), j - 1)))
        ELSE IF IsDigit(c) \/ c = "-"
        THEN IF ~IsJSONNumber(number) THEN failed
             ELSE RefLexFrom(text, j + Len(number),
                    Append(acc, RefTok(TokenNumber, number, RefNumberValue(number), j - 1)))
        ELSE IF word = <<"t", "r", "u", "e">>
        THEN RefLexFrom(text, j + 4, Append(acc, RefTok(TokenBoolean, word, BoolV(TRUE), j - 1)))
        ELSE IF word = <<"f", "a", "l", "s", "e">>
        THEN RefLexFrom(text, j + 5, Append(acc, RefTok(TokenBoolean, word, BoolV(FALSE), j - 1)))
        ELSE IF word = <<"n", "u", "l", "l">>
        THEN RefLexFrom(text, j + 4, Append(acc, RefTok(TokenNull, word, NilV, j - 1)))
        ELSE failed
RefLex(text) == RefLexFrom(text, 1, <<>>)

\* ---------------------------------------------------------------------- C1
\* C1: when the input is a document of the grammar, the run returns a value,
\* and the value is the tree of the document: variant for variant, key for
\* key, element for element, strings decoded and numbers by their value.
C1_DocumentsParse ==
    (pc \in Terminal /\ RefDocument(RefLex(input)).ok)
        => (pc = "done" /\ ret = RefDocument(RefLex(input)).v)

\* ---------------------------------------------------------------------- C8
\* The runs of whitespace inserted, and the text with one inserted at an offset.
WsRuns == {<<" ">>, <<"\t">>, <<"\n">>, <<"\r">>, <<" ", "\n">>}
Insert(text, at, w) == SubSeq(text, 1, at) \o w \o SubSeq(text, at + 1, Len(text))

\* The offsets between two adjacent tokens, and before the first: where the
\* tokens of the text start, the end-of-input token that ends them included
\* (TokenEOF is a token of the lexer like the others).
Boundaries(text) == {0} \cup {RefLex(text)[i].at : i \in 1..Len(RefLex(text))}

\* What a finished run hands to its caller: the value, or the failure.
Outcome(m) == IF m.pc = "done" THEN <<"value", m.ret>> ELSE <<"panic", NilV>>

\* C8: a run of whitespace inserted between two adjacent tokens, or before the
\* first, does not change the outcome: the same tree, or a failure both times.
C8_WhitespaceInsensitive ==
    pc \in Terminal =>
        \A at \in Boundaries(input) : \A w \in WsRuns :
            Outcome(Run(Start(Insert(input, at, w)))) = Outcome(Machine)

====
